---- MODULE Spec2Model ----
(***************************************************************************)
(* RoadForm (src/src/roadform/form.py): a Form is an ordered mapping of    *)
(* FormFields; Form.validate runs the FieldValidator predicates over       *)
(* submitted data, Form.render_html renders the fields to markup.          *)
(*                                                                         *)
(* Python strings are modelled as sequences of one-character strings, so   *)
(* that str(), len(), strip(), html.escape() and the regular expressions   *)
(* are computed character by character.  A Python value (None, str, int,   *)
(* bool) is a record [t, s, n].                                            *)
(***************************************************************************)
EXTENDS Integers, Sequences, FiniteSets, TLC

\* ------------------------------------------------------------------ bounds
\* Validators attached across the fields of one form.
MaxValidators == 2
\* Largest length parameter tried on min_length / max_length.
MaxLen == 4

\* ------------------------------------------------------------ Python values
None == [t |-> "none", s |-> <<>>, n |-> 0]
PyStr(s) == [t |-> "str", s |-> s, n |-> 0]
PyInt(n) == [t |-> "int", s |-> <<>>, n |-> n]
PyBool(b) == [t |-> "bool", s |-> <<>>, n |-> IF b THEN 1 ELSE 0]

Digits == <<"0", "1", "2", "3", "4", "5", "6", "7", "8", "9">>
DigitSet == {Digits[i] : i \in 1..10}
Lower == {"a", "b", "c", "d", "e", "f", "g", "h", "i", "j", "k", "l", "m",
          "n", "o", "p", "q", "r", "s", "t", "u", "v", "w", "x", "y", "z"}
Upper == {"A", "B", "C", "D", "E", "F", "G", "H", "I", "J", "K", "L", "M",
          "N", "O", "P", "Q", "R", "S", "T", "U", "V", "W", "X", "Y", "Z"}
Letters == Lower \cup Upper
\* str.strip() and the regular expressions' \s: the whitespace characters.
Whitespace == {" ", "\t", "\n", "\r"}

RECURSIVE NatStr(_)
NatStr(n) == IF n < 10 THEN <<Digits[n + 1]>>
             ELSE NatStr(n \div 10) \o <<Digits[(n % 10) + 1]>>

\* str(n) for an int.
IntStr(n) == IF n < 0 THEN <<"-">> \o NatStr(0 - n) ELSE NatStr(n)

\* str(value), as the validators and the renderer apply it.
Str(v) == CASE v.t = "none" -> <<"N", "o", "n", "e">>
            [] v.t = "str" -> v.s
            [] v.t = "int" -> IntStr(v.n)
            [] v.t = "bool" -> IF v.n = 1 THEN <<"T", "r", "u", "e">>
                               ELSE <<"F", "a", "l", "s", "e">>

\* bool(value): the test behind `not value`, `value or ""`, `if value`.
Truthy(v) == CASE v.t = "none" -> FALSE
               [] v.t = "str" -> Len(v.s) > 0
               [] v.t = "int" -> v.n # 0
               [] v.t = "bool" -> v.n = 1

\* s.strip(): whitespace removed at both ends.
RECURSIVE LStrip(_)
LStrip(s) == IF s # <<>> /\ Head(s) \in Whitespace THEN LStrip(Tail(s)) ELSE s
RECURSIVE RStrip(_)
RStrip(s) == IF s # <<>> /\ s[Len(s)] \in Whitespace
             THEN RStrip(SubSeq(s, 1, Len(s) - 1)) ELSE s
Strip(s) == RStrip(LStrip(s))

AllIn(s, C) == \A i \in 1..Len(s) : s[i] \in C

RECURSIVE DigitsVal(_)
DigitsVal(s) == IF s = <<>> THEN 0
                ELSE 10 * DigitsVal(SubSeq(s, 1, Len(s) - 1))
                     + (CHOOSE d \in 0..9 : Digits[d + 1] = s[Len(s)])

\* float(value): [ok, n].  ok = FALSE is the ValueError float() raises on a
\* string that is not a number.  Numbers are the integers; a numeric string
\* is an optional sign and decimal digits, surrounded by whitespace.
ToFloat(v) ==
    IF v.t \in {"int", "bool"} THEN [ok |-> TRUE, n |-> v.n]
    ELSE LET s == Strip(v.s)
             neg == s # <<>> /\ Head(s) = "-"
             body == IF s # <<>> /\ Head(s) \in {"-", "+"} THEN Tail(s) ELSE s
         IN IF v.t = "str" /\ body # <<>> /\ AllIn(body, DigitSet)
            THEN [ok |-> TRUE, n |-> IF neg THEN 0 - DigitsVal(body) ELSE DigitsVal(body)]
            ELSE [ok |-> FALSE, n |-> 0]

\* ------------------------------------------------------------ FieldValidator
\* A predicate's outcome: "pass" (True), "fail" (False), "raise" (exception).
Outcome(b) == IF b THEN "pass" ELSE "fail"

required(value) ==
    IF value.t = "none" THEN FALSE
    ELSE IF value.t = "str" /\ Strip(value.s) = <<>> THEN FALSE
    ELSE TRUE

\* `$` matches at the end of the string or before a final newline.
AtEnd(s, i) == i = Len(s) + 1 \/ (i = Len(s) /\ s[i] = "\n")

EmailLocal == Letters \cup DigitSet \cup {".", "_", "%", "+", "-"}
EmailDomain == Letters \cup DigitSet \cup {".", "-"}
\* re.match(r'^[a-zA-Z0-9._%+-]+@[a-zA-Z0-9.-]+\.[a-zA-Z]{2,}$', s)
EmailMatch(s) ==
    \E at \in 2..Len(s) : \E dot \in (at + 2)..Len(s) : \E e \in (dot + 3)..(Len(s) + 1) :
        /\ AllIn(SubSeq(s, 1, at - 1), EmailLocal)
        /\ s[at] = "@"
        /\ AllIn(SubSeq(s, at + 1, dot - 1), EmailDomain)
        /\ s[dot] = "."
        /\ AllIn(SubSeq(s, dot + 1, e - 1), Letters)
        /\ AtEnd(s, e)

email(value) ==
    IF ~Truthy(value) THEN TRUE ELSE EmailMatch(Str(value))

\* re.match(r'^https?://[^\s/$.?#].[^\s]*$', s)
UrlMatch(s) ==
    \E p \in {5, 6} :
        /\ Len(s) >= p + 4
        /\ SubSeq(s, 1, 4) = <<"h", "t", "t", "p">>
        /\ (p = 6 => s[5] = "s")
        /\ SubSeq(s, p, p + 2) = <<":", "/", "/">>
        /\ s[p + 3] \notin Whitespace \cup {"/", "$", ".", "?", "#"}
        /\ s[p + 4] # "\n"
        /\ \E e \in (p + 5)..(Len(s) + 1) :
              /\ \A i \in (p + 5)..(e - 1) : s[i] \notin Whitespace
              /\ AtEnd(s, e)

url(value) ==
    IF ~Truthy(value) THEN TRUE ELSE UrlMatch(Str(value))

min_length(value, min_len) ==
    IF ~Truthy(value) THEN TRUE ELSE Len(Str(value)) >= min_len

max_length(value, max_len) ==
    IF ~Truthy(value) THEN TRUE ELSE Len(Str(value)) <= max_len

min_value(value, min_val) ==
    IF value.t = "none" THEN "pass"
    ELSE IF ~ToFloat(value).ok THEN "raise"
    ELSE Outcome(ToFloat(value).n >= min_val)

max_value(value, max_val) ==
    IF value.t = "none" THEN "pass"
    ELSE IF ~ToFloat(value).ok THEN "raise"
    ELSE Outcome(ToFloat(value).n <= max_val)

\* re.match(regex, s) for a regex of literal characters: s starts with it.
LiteralMatch(regex, s) ==
    Len(s) >= Len(regex) /\ SubSeq(s, 1, Len(regex)) = regex

pattern(value, regex) ==
    IF ~Truthy(value) THEN TRUE ELSE LiteralMatch(regex, Str(value))

\* ------------------------------------------------------ FormField, FieldOption
\* A validator parameter: a number (n), a string (s) or a predicate (f).
NoParam == [n |-> 0, s |-> <<>>, f |-> ""]
NumParam(n) == [n |-> n, s |-> <<>>, f |-> ""]
StrParam(s) == [n |-> 0, s |-> s, f |-> ""]
\* A custom predicate: "truthy" is `lambda v: bool(v)`, "never" is
\* `lambda v: False`; FunParam("") is a parameter that is not callable.
FunParam(f) == [n |-> 0, s |-> <<>>, f |-> f]

callable(param) == param.f # ""
CallPredicate(param, value) ==
    IF param.f = "truthy" THEN Truthy(value) ELSE FALSE

\* The triple add_validator appends; message <<>> is message=None.
Validator(rule, param, message) == [rule |-> rule, param |-> param, message |-> message]

FieldOption(value, label) == [value |-> value, label |-> label, selected |-> FALSE]

FormField(name, type, label, default, req, options, validators) ==
    [name |-> name, type |-> type, label |-> label, default |-> default,
     required |-> req, options |-> options, validators |-> validators]

add_validator(field, v) ==
    [field EXCEPT !.validators = Append(@, v)]

\* name.title() on the field names of the model.
Title(name) == CASE name = "age" -> "Age"
                 [] name = "bio" -> "Bio"
                 [] OTHER -> name

\* ----------------------------------------------------------------------- Form
\* self.fields is a dict: an ordered mapping, here the sequence of its values
\* in insertion order.  Assigning to a key the dict holds replaces the value
\* and keeps the key's position.
IndexOf(fs, name) ==
    IF \E i \in 1..Len(fs) : fs[i].name = name
    THEN CHOOSE i \in 1..Len(fs) : fs[i].name = name
    ELSE 0

add_field(fs, field) ==
    IF IndexOf(fs, field.name) # 0
    THEN [fs EXCEPT ![IndexOf(fs, field.name)] = field]
    ELSE Append(fs, field)

text(name, req, default) ==
    FormField(name, "text", Title(name), default, req, <<>>, <<>>)

form_email(name, req) ==
    add_validator(FormField(name, "email", "Email", None, req, <<>>, <<>>),
                  Validator("email", NoParam, <<"Invalid email address">>))

textarea(name, default) ==
    FormField(name, "textarea", Title(name), default, FALSE, <<>>, <<>>)

checkbox(name) ==
    FormField(name, "checkbox", Title(name), None, FALSE, <<>>, <<>>)

hidden(name, value) ==
    FormField(name, "hidden", "", value, FALSE, <<>>, <<>>)

\* select(name, options): each option value goes through str().
select(name, options, default) ==
    FormField(name, "select", Title(name), default, FALSE,
              [i \in 1..Len(options) |-> FieldOption(Str(options[i][1]), options[i][2])],
              <<>>)

\* data.get(name, field.default)
Resolve(data, field) ==
    IF field.name \in DOMAIN data THEN data[field.name] ELSE field.default

LabelOrName(field) == IF field.label # "" THEN field.label ELSE field.name

\* The if/elif chain of validate: the predicate a rule selects, applied.
Evaluate(rule, param, value) ==
    CASE rule = "required" -> Outcome(required(value))
      [] rule = "email" -> Outcome(email(value))
      [] rule = "url" -> Outcome(url(value))
      [] rule = "min_length" -> Outcome(min_length(value, param.n))
      [] rule = "max_length" -> Outcome(max_length(value, param.n))
      [] rule = "min_value" -> min_value(value, param.n)
      [] rule = "max_value" -> max_value(value, param.n)
      [] rule = "pattern" -> Outcome(pattern(value, param.s))
      [] rule = "custom" /\ callable(param) -> Outcome(CallPredicate(param, value))
      [] OTHER -> "pass"

DefaultMsg(rule, param, field) ==
    CASE rule = "required" -> <<LabelOrName(field), " is required">>
      [] rule = "email" -> <<"Invalid email address">>
      [] rule = "url" -> <<"Invalid URL">>
      [] rule = "min_length" -> <<"Minimum length is ">> \o IntStr(param.n)
      [] rule = "max_length" -> <<"Maximum length is ">> \o IntStr(param.n)
      [] rule = "min_value" -> <<"Minimum value is ">> \o IntStr(param.n)
      [] rule = "max_value" -> <<"Maximum value is ">> \o IntStr(param.n)
      [] rule = "pattern" -> <<"Invalid format">>
      [] OTHER -> <<LabelOrName(field), " validation failed">>

ValidationError(field, rule, message) ==
    [field |-> field, rule |-> rule, message |-> message]

\* The state of one validate call: errors and validated are the locals of
\* the code; evaluated records each check the loop made, [field, idx, res],
\* idx 0 being the field.required test; raised is an exception in flight.
EmptyFn == [x \in {} |-> None]
LoopStart == [errors |-> <<>>, validated |-> EmptyFn, evaluated |-> <<>>, raised |-> FALSE]

\* The inner loop's pass with errors.insert(0, ...) for errors.append(...).
RunValidator_insert(st, field, value, k) ==
    LET v == field.validators[k]
        res == Evaluate(v.rule, v.param, value)
        msg == IF v.message # <<>> THEN v.message ELSE DefaultMsg(v.rule, v.param, field)
        seen == Append(st.evaluated, [field |-> field.name, idx |-> k, res |-> res])
    IN CASE res = "raise" -> [st EXCEPT !.evaluated = seen, !.raised = TRUE]
         [] res = "fail" -> [st EXCEPT !.evaluated = seen,
                                       !.errors = <<ValidationError(field.name, v.rule, msg)>> \o @]
         [] OTHER -> [st EXCEPT !.evaluated = seen]

\* One pass of the inner loop: validator k of the field.
RunValidator(st, field, value, k) ==
    LET v == field.validators[k]
        res == Evaluate(v.rule, v.param, value)
        msg == IF v.message # <<>> THEN v.message ELSE DefaultMsg(v.rule, v.param, field)
        seen == Append(st.evaluated, [field |-> field.name, idx |-> k, res |-> res])
    IN CASE res = "raise" -> [st EXCEPT !.evaluated = seen, !.raised = TRUE]
         [] res = "fail" -> [st EXCEPT !.evaluated = seen,
                                       !.errors = Append(@, ValidationError(field.name, v.rule, msg))]
         [] OTHER -> [st EXCEPT !.evaluated = seen]

RECURSIVE RunValidators(_, _, _, _)
RunValidators(st, field, value, k) ==
    IF st.raised \/ k > Len(field.validators) THEN st
    ELSE RunValidators(RunValidator(st, field, value, k), field, value, k + 1)

\* The outer loop's pass without the `continue` after the required error.
ValidateField_nocontinue(st, field, data) ==
    LET value == Resolve(data, field)
        seen == IF field.required /\ ~required(value)
                THEN [st EXCEPT
                        !.errors = Append(@, ValidationError(field.name, "required",
                                                 <<LabelOrName(field), " is required">>)),
                        !.evaluated = Append(@, [field |-> field.name, idx |-> 0, res |-> "fail"])]
                ELSE st
        after == RunValidators(seen, field, value, 1)
    IN IF after.raised THEN after
       ELSE [after EXCEPT !.validated = (field.name :> value) @@ @]

\* One pass of the outer loop.
ValidateField(st, field, data) ==
    LET value == Resolve(data, field)
    IN IF field.required /\ ~required(value)
       THEN [st EXCEPT
               !.errors = Append(@, ValidationError(field.name, "required",
                                        <<LabelOrName(field), " is required">>)),
               !.evaluated = Append(@, [field |-> field.name, idx |-> 0, res |-> "fail"])]
       ELSE LET seen == IF field.required
                        THEN [st EXCEPT !.evaluated =
                                 Append(@, [field |-> field.name, idx |-> 0, res |-> "pass"])]
                        ELSE st
                after == RunValidators(seen, field, value, 1)
            IN IF after.raised THEN after
               ELSE [after EXCEPT !.validated = (field.name :> value) @@ @]

RECURSIVE ValidateLoop(_, _, _, _)
ValidateLoop(st, fs, data, i) ==
    IF st.raised \/ i > Len(fs) THEN st
    ELSE ValidateLoop(ValidateField(st, fs[i], data), fs, data, i + 1)

\* Form.validate: the FormData returned, or the exception that escapes.
validate(fs, data) ==
    LET st == ValidateLoop(LoopStart, fs, data, 1)
    IN IF st.raised
       THEN [outcome |-> "raised", fields |-> EmptyFn, valid |-> FALSE,
             errors |-> <<>>, evaluated |-> st.evaluated]
       ELSE [outcome |-> "ok", fields |-> st.validated, valid |-> Len(st.errors) = 0,
             errors |-> st.errors, evaluated |-> st.evaluated]

\* A validate that keeps each resolved value as the field's default.
SelfAfterValidate_keeps(fs, data) ==
    [i \in 1..Len(fs) |-> [fs[i] EXCEPT !.default = Resolve(data, fs[i])]]

\* validate reads self.fields and assigns nothing to it.
SelfAfterValidate(fs, data) == fs

\* ------------------------------------------------------------------ rendering
\* Markup is a sequence of tokens: the fixed pieces of the f-strings, names
\* and labels are one token each, the characters of a value one token each.
\* The delimiters next to an interpolated value are tokens of their own, so
\* the markup can be read back: where an attribute or an element ends.

\* html.escape(s) with quote=True, one character at a time.
EscapeChar(c) ==
    CASE c = "&" -> <<"&", "a", "m", "p", ";">>
      [] c = "<" -> <<"&", "l", "t", ";">>
      [] c = ">" -> <<"&", "g", "t", ";">>
      [] c = "\"" -> <<"&", "q", "u", "o", "t", ";">>
      [] c = "'" -> <<"&", "#", "x", "2", "7", ";">>
      [] OTHER -> <<c>>

\* html.escape(s, quote=False): the quotes are left as they are.
RECURSIVE html_escape_noquote(_)
html_escape_noquote(s) ==
    IF s = <<>> THEN <<>>
    ELSE (IF Head(s) \in {"\"", "'"} THEN <<Head(s)>> ELSE EscapeChar(Head(s)))
         \o html_escape_noquote(Tail(s))

RECURSIVE html_escape(_)
html_escape(s) ==
    IF s = <<>> THEN <<>> ELSE EscapeChar(Head(s)) \o html_escape(Tail(s))

\* sep.join(parts)
RECURSIVE Join(_, _)
Join(parts, sep) ==
    IF parts = <<>> THEN <<>>
    ELSE IF Len(parts) = 1 THEN parts[1]
    ELSE parts[1] \o sep \o Join(Tail(parts), sep)

\* An f-string piece that is present only under a condition.
Opt(cond, tok) == IF cond THEN <<tok>> ELSE <<>>

\* One <option> line of a select; the marker follows str(opt.value) == str(value).
RenderOption(opt, value) ==
    <<"<option value=", "\"">> \o opt.value \o <<"\"">>
    \o Opt(Str(PyStr(opt.value)) = Str(value), " selected")
    \o <<">", opt.label, "</option>">>

\* Form._render_field; placeholder, attributes and help_text are empty,
\* disabled and readonly are false.
render_field(field, value) ==
    LET escaped_value == IF Truthy(value) THEN html_escape(Str(value)) ELSE <<>>
        req == Opt(field.required, " required")
        lbl == IF field.label # "" /\ field.type # "checkbox"
               THEN << <<"<label for=\"", field.name, "\">", field.label, "</label>">> >>
               ELSE <<>>
        body ==
          CASE field.type = "textarea" ->
                 << <<"<textarea name=\"", field.name, "\" id=\"", field.name,
                      "\" placeholder=\"\"">> \o req \o <<" ", ">">>
                    \o escaped_value \o <<"</textarea>">> >>
            [] field.type = "select" ->
                 << <<"<select name=\"", field.name, "\" id=\"", field.name, "\"">>
                    \o req \o <<" ", ">">> >>
                 \o [i \in 1..Len(field.options) |-> RenderOption(field.options[i], value)]
                 \o << <<"</select>">> >>
            [] field.type = "checkbox" ->
                 << <<"<label><input type=\"checkbox\" name=\"", field.name, "\" id=\"",
                      field.name, "\" value=\"1\"">> \o Opt(Truthy(value), " checked")
                    \o <<" ", "> ", field.label, "</label>">> >>
            [] OTHER ->
                 << <<"<input type=\"", field.type, "\" name=\"", field.name, "\" id=\"",
                      field.name, "\" value=", "\"">> \o escaped_value
                    \o <<"\"", " placeholder=\"\"">> \o req \o <<" ", ">">> >>
    IN IF field.type = "hidden"
       THEN <<"<input type=\"hidden\" name=\"", field.name, "\" value=", "\"">>
            \o escaped_value \o <<"\"", ">">>
       ELSE Join(<< <<"<div class=\"form-group\">">> >> \o lbl \o body
                 \o << <<"</div>">> >>, <<"\n">>)

\* data.get(name, field.default) or ""
DisplayValue(data, field) ==
    IF Truthy(Resolve(data, field)) THEN Resolve(data, field) ELSE PyStr(<<>>)

\* Form.render_html: the markup of each field, in the order of self.fields.
\* rendered keeps the pieces apart: one entry per field visited.
RenderedFields(fs, data) ==
    [i \in 1..Len(fs) |-> render_field(fs[i], DisplayValue(data, fs[i]))]

render_html(fs, data) ==
    Join(<< <<"<form name=\"", "form", "\" method=\"", "POST", "\" action=\"", "",
              "\" enctype=\"", "application/x-www-form-urlencoded", "\">">> >>
         \o RenderedFields(fs, data)
         \o << <<"<button type=\"submit\">Submit</button>">>, <<"</form>">> >>,
         <<"\n">>)

\* render_html reads self.fields and assigns nothing to it.
SelfAfterRender(fs, data) == fs

\* ------------------------------------------------------------- state machine
VARIABLES
    fields,     \* self.fields of the Form, in dict order
    op,         \* the last call made on the Form
    data,       \* the data argument of the last validate / render_html
    result,     \* what the last validate returned
    markup,     \* what the last render_html returned
    first,      \* the first validate since the Form was last mutated
    lenArgs,    \* the (value, n) handed to min_length / max_length
    lenResult   \* what the two predicates returned

vars == <<fields, op, data, result, markup, first, lenArgs, lenResult>>

NoResult == [outcome |-> "none", fields |-> EmptyFn, valid |-> FALSE,
             errors |-> <<>>, evaluated |-> <<>>]
NoFirst == [set |-> FALSE, data |-> EmptyFn, result |-> NoResult, rendered |-> FALSE]
NoLen == [called |-> "none", ret |-> FALSE]

FieldNames == {"age", "bio"}

\* A data mapping: some of the names, each with a value.
DataOver(names, values) == UNION {[S -> values] : S \in SUBSET names}

Word == PyStr(<<"a", "b">>)
Blank == PyStr(<<" ">>)
Empty == PyStr(<<>>)

\* -- Spec: a form of two fields, validated.
FieldPool ==
    {text(n, r, None) : n \in FieldNames, r \in BOOLEAN}
    \cup {text(n, FALSE, Word) : n \in FieldNames}

ValidatorPool ==
    { Validator("min_length", NumParam(3), <<>>),
      Validator("min_value", NumParam(1), <<>>),
      Validator("custom", FunParam("truthy"), <<"rejected">>) }

ValidateValues == {None, Blank, Word, PyInt(0)}

\* -- SpecRules: one field carrying any of the rules, validated.
RuleNames == {"age"}

RuleFieldPool ==
    {text(n, r, None) : n \in RuleNames, r \in BOOLEAN}
    \cup {form_email(n, r) : n \in RuleNames, r \in BOOLEAN}

RulePool ==
    { Validator("required", NoParam, <<>>),
      Validator("email", NoParam, <<>>),
      Validator("url", NoParam, <<>>),
      Validator("min_length", NumParam(3), <<>>),
      Validator("max_length", NumParam(1), <<"too long">>),
      Validator("min_value", NumParam(1), <<>>),
      Validator("max_value", NumParam(-1), <<>>),
      Validator("pattern", StrParam(<<"b">>), <<>>),
      Validator("custom", FunParam("truthy"), <<>>),
      Validator("custom", FunParam(""), <<>>) }

RuleValues == {None, Empty, Blank, Word, PyStr(<<"7">>), PyInt(0)}

\* -- SpecRender: fields of every rendering kind, rendered.
Markup1 == PyStr(<<"<", "b", ">">>)
Markup2 == PyStr(<<"\"", "&", "'">>)

SelectOptions == << <<PyInt(0), "Zero">>, <<PyInt(1), "One">>, <<Word, "Word">> >>

RenderFieldPool ==
    {hidden(n, v) : n \in FieldNames, v \in {None, Markup1}}
    \cup {textarea(n, v) : n \in FieldNames, v \in {None, Markup2}}
    \cup {text(n, r, None) : n \in FieldNames, r \in BOOLEAN}
    \cup {select(n, SelectOptions, v) : n \in FieldNames, v \in {None, PyInt(1)}}
    \cup {checkbox(n) : n \in FieldNames}

RenderValues == {None, Word, Markup1, Markup2, PyStr(<<"1">>), PyInt(0), PyBool(FALSE)}

\* -- SpecIdem: repeated calls on one form.
IdemFieldPool ==
    {text(n, TRUE, None) : n \in FieldNames}
    \cup {text(n, FALSE, Word) : n \in FieldNames}

IdemPool ==
    { Validator("min_length", NumParam(3), <<>>),
      Validator("min_value", NumParam(1), <<>>) }

IdemValues == {None, Word}

\* Validators attached across the fields of the form.
TotalValidators(fs) ==
    LET RECURSIVE Sum(_)
        Sum(i) == IF i > Len(fs) THEN 0 ELSE Len(fs[i].validators) + Sum(i + 1)
    IN Sum(1)

Init ==
    /\ fields = <<>>
    /\ op = "init"
    /\ data = EmptyFn
    /\ result = NoResult
    /\ markup = <<>>
    /\ first = NoFirst
    /\ lenArgs = [value |-> None, n |-> 0]
    /\ lenResult = NoLen

\* form.add_field(field)
AddField(field) ==
    /\ fields' = add_field(fields, field)
    /\ op' = "add_field"
    /\ data' = EmptyFn
    /\ result' = NoResult
    /\ markup' = <<>>
    /\ first' = NoFirst
    /\ UNCHANGED <<lenArgs, lenResult>>

\* form.fields[name].add_validator(rule, value, message)
AddValidator(name, v) ==
    /\ IndexOf(fields, name) # 0
    /\ TotalValidators(fields) < MaxValidators
    /\ fields' = [fields EXCEPT ![IndexOf(fields, name)] = add_validator(@, v)]
    /\ op' = "add_validator"
    /\ data' = EmptyFn
    /\ result' = NoResult
    /\ markup' = <<>>
    /\ first' = NoFirst
    /\ UNCHANGED <<lenArgs, lenResult>>

\* form.validate(d)
Validate(d) ==
    /\ fields' = SelfAfterValidate(fields, d)
    /\ op' = "validate"
    /\ data' = d
    /\ result' = validate(fields, d)
    /\ markup' = <<>>
    /\ UNCHANGED <<first, lenArgs, lenResult>>

\* form.render_html(d)
RenderHtml(d) ==
    /\ fields' = SelfAfterRender(fields, d)
    /\ op' = "render_html"
    /\ data' = d
    /\ markup' = render_html(fields, d)
    /\ result' = NoResult
    /\ UNCHANGED <<first, lenArgs, lenResult>>

\* form.validate(d), remembered when it is the first call since the form
\* was last mutated.
ValidateTracked(d) ==
    /\ fields' = SelfAfterValidate(fields, d)
    /\ op' = "validate"
    /\ data' = d
    /\ result' = validate(fields, d)
    /\ markup' = <<>>
    /\ first' = IF first.set THEN first
                ELSE [set |-> TRUE, data |-> d, result |-> validate(fields, d),
                      rendered |-> FALSE]
    /\ UNCHANGED <<lenArgs, lenResult>>

\* form.render_html(d), noted when it follows the remembered validate.
RenderTracked(d) ==
    /\ fields' = SelfAfterRender(fields, d)
    /\ op' = "render_html"
    /\ data' = d
    /\ markup' = render_html(fields, d)
    /\ result' = NoResult
    /\ first' = [first EXCEPT !.rendered = first.set]
    /\ UNCHANGED <<lenArgs, lenResult>>

\* FieldValidator.min_length(value, n)
MinLength ==
    /\ lenResult' = [called |-> "min_length", ret |-> min_length(lenArgs.value, lenArgs.n)]
    /\ UNCHANGED <<fields, op, data, result, markup, first, lenArgs>>

\* FieldValidator.max_length(value, n)
MaxLength ==
    /\ lenResult' = [called |-> "max_length", ret |-> max_length(lenArgs.value, lenArgs.n)]
    /\ UNCHANGED <<fields, op, data, result, markup, first, lenArgs>>

Next ==
    \/ \E f \in FieldPool : AddField(f)
    \/ \E n \in FieldNames : \E v \in ValidatorPool : AddValidator(n, v)
    \/ \E d \in DataOver(FieldNames, ValidateValues) : Validate(d)

Spec == Init /\ [][Next]_vars

NextRules ==
    \/ \E f \in RuleFieldPool : AddField(f)
    \/ \E n \in RuleNames : \E v \in RulePool : AddValidator(n, v)
    \/ \E d \in DataOver(RuleNames, RuleValues) : Validate(d)

SpecRules == Init /\ [][NextRules]_vars

NextRender ==
    \/ \E f \in RenderFieldPool : AddField(f)
    \/ \E d \in DataOver(FieldNames, RenderValues) : RenderHtml(d)

SpecRender == Init /\ [][NextRender]_vars

NextIdem ==
    \/ \E f \in IdemFieldPool : AddField(f)
    \/ \E n \in FieldNames : \E v \in IdemPool : AddValidator(n, v)
    \/ \E d \in DataOver(FieldNames, IdemValues) : ValidateTracked(d)
    \/ \E d \in DataOver(FieldNames, IdemValues) : RenderTracked(d)

SpecIdem == Init /\ [][NextIdem]_vars

\* -- SpecLen: min_length and max_length on their own.
LenValues ==
    {None, Empty, Blank, Word, PyStr(<<"a">>), PyStr(<<"a", "b", "c", "d">>),
     PyStr(<<"a", "b", "c", "d", "e">>), PyInt(0), PyInt(7), PyInt(12), PyInt(-5),
     PyBool(FALSE), PyBool(TRUE)}

InitLen ==
    /\ fields = <<>>
    /\ op = "init"
    /\ data = EmptyFn
    /\ result = NoResult
    /\ markup = <<>>
    /\ first = NoFirst
    /\ lenArgs \in [value : LenValues, n : 0..MaxLen]
    /\ lenResult = NoLen

NextLen == MinLength \/ MaxLength

SpecLen == InitLen /\ [][NextLen]_vars

\* ------------------------------------------------------------------ properties
\* The value validate and render_html resolve for a field of the form.
Resolved(f) == IF f.name \in DOMAIN data THEN data[f.name] ELSE f.default

\* None, or a string of whitespace only.
IsBlank(v) == v.t = "none" \/ (v.t = "str" /\ \A i \in 1..Len(v.s) : v.s[i] \in Whitespace)

ErrorsOf(name) == {k \in 1..Len(result.errors) : result.errors[k].field = name}
ChecksOf(name) == {k \in 1..Len(result.evaluated) : result.evaluated[k].field = name}

\* C1: a required field whose resolved value is None or whitespace-only gets
\* exactly one error, of rule "required", and none of its validators is
\* evaluated, however many are attached.
C1_RequiredShortCircuit ==
    op = "validate" =>
        \A i \in 1..Len(fields) :
            LET f == fields[i]
            IN (f.required /\ IsBlank(Resolved(f))) =>
                  /\ \A k \in ChecksOf(f.name) : result.evaluated[k].idx = 0
                  /\ result.outcome = "ok" =>
                        /\ Cardinality(ErrorsOf(f.name)) = 1
                        /\ \A k \in ErrorsOf(f.name) : result.errors[k].rule = "required"

\* A required field with two validators attached is submitted blank, beside
\* another field that fails too.
C1_Witness ==
    /\ op = "validate"
    /\ result.outcome = "ok"
    /\ Len(result.errors) = 2
    /\ \E i \in 1..Len(fields) :
          /\ fields[i].required
          /\ Len(fields[i].validators) = 2
          /\ fields[i].name \in DOMAIN data
          /\ data[fields[i].name] = Blank

\* C2: the fields mapping of the result has an entry for every field of the
\* form, holding its resolved value, whether or not the field is valid.
C2_EveryFieldRecorded ==
    (op = "validate" /\ result.outcome = "ok") =>
        /\ DOMAIN result.fields = {fields[i].name : i \in 1..Len(fields)}
        /\ \A i \in 1..Len(fields) : result.fields[fields[i].name] = Resolved(fields[i])

\* C3: validate never raises; it always returns a FormData.
C3_ValidateNeverRaises ==
    op = "validate" => result.outcome = "ok"

\* C4: on a resolved value of None or "", no validator of a rule other than
\* `required` contributes an error: each one passes.
C4_EmptyValueExemption ==
    op = "validate" =>
        \A i \in 1..Len(fields) :
            LET f == fields[i]
            IN Resolved(f) \in {None, Empty} =>
                  /\ \A k \in ChecksOf(f.name) :
                        LET e == result.evaluated[k]
                        IN (e.idx > 0 /\ f.validators[e.idx].rule # "required")
                              => e.res = "pass"
                  /\ \A k \in ErrorsOf(f.name) : result.errors[k].rule = "required"

\* The checks of the last validate that failed, in the order they were made.
FailedChecks == SelectSeq(result.evaluated, LAMBDA e : e.res = "fail")

RuleOfCheck(e) ==
    IF e.idx = 0 THEN "required"
    ELSE fields[IndexOf(fields, e.field)].validators[e.idx].rule

\* Check a comes before check b: an earlier field, or the same field and an
\* earlier validator.
ComesBefore(a, b) ==
    \/ IndexOf(fields, a.field) < IndexOf(fields, b.field)
    \/ (a.field = b.field /\ a.idx < b.idx)

ShortCircuited(f) == f.required /\ IsBlank(Resolved(f))

\* C5: the errors are those of the failed checks, in field order and then in
\* the order the validators were attached; a failing validator stops neither
\* the rest of its field's validators nor the fields after it.
C5_ErrorOrdering ==
    (op = "validate" /\ result.outcome = "ok") =>
        /\ Len(result.errors) = Len(FailedChecks)
        /\ \A k \in 1..Len(result.errors) :
              /\ result.errors[k].field = FailedChecks[k].field
              /\ result.errors[k].rule = RuleOfCheck(FailedChecks[k])
        /\ \A j, k \in 1..Len(result.evaluated) :
              j < k => ComesBefore(result.evaluated[j], result.evaluated[k])
        /\ \A i \in 1..Len(fields) :
              ~ShortCircuited(fields[i]) =>
                  \A v \in 1..Len(fields[i].validators) :
                      \E k \in ChecksOf(fields[i].name) : result.evaluated[k].idx = v

\* Two validators of the first field fail, then the second field fails.
C5_Witness ==
    /\ op = "validate"
    /\ result.outcome = "ok"
    /\ Len(result.errors) = 3
    /\ result.errors[1].field = result.errors[2].field
    /\ result.errors[1].rule # result.errors[2].rule
    /\ result.errors[3].field # result.errors[1].field

\* C6: validate and render_html leave the form's fields as they are, and a
\* validate(D) that follows other validate and render_html calls returns what
\* the first validate(D) returned.
C6_Idempotence ==
    /\ [](( op = "validate" /\ first.set /\ data = first.data ) => result = first.result)
    /\ [][op' \in {"validate", "render_html"} => fields' = fields]_vars

\* validate(D) again, after a render_html, on a form whose validators fail.
C6_Witness ==
    /\ op = "validate"
    /\ first.set
    /\ first.rendered
    /\ data = first.data
    /\ Len(fields) = 2
    /\ Len(result.errors) >= 2

\* Reading the markup back.  The first position from `from` on holding one
\* of the tokens, or one past the end.
FirstAt(m, from, toks) ==
    IF \E r \in from..Len(m) : m[r] \in toks
    THEN CHOOSE r \in from..Len(m) :
            m[r] \in toks /\ \A q \in from..(r - 1) : m[q] \notin toks
    ELSE Len(m) + 1

SelectStart(m, name) ==
    CHOOSE q \in 1..(Len(m) - 1) : m[q] = "<select name=\"" /\ m[q + 1] = name

OptionStarts(m, name) ==
    {r \in SelectStart(m, name)..FirstAt(m, SelectStart(m, name), {"</select>"}) :
        m[r] = "<option value="}

OptionValue(m, r) == SubSeq(m, r + 2, FirstAt(m, r + 2, {"\""}) - 1)
OptionMarked(m, r) == m[FirstAt(m, r + 2, {"\""}) + 1] = " selected"

\* C7: a select rendered with a resolved value v (a string, a number or a
\* boolean) marks an option selected iff str(option.value) = str(v).
C7_SelectMarksMatchingOption ==
    op = "render_html" =>
        \A i \in 1..Len(fields) :
            LET f == fields[i]
                v == Resolved(f)
            IN (f.type = "select" /\ v.t \in {"str", "int", "bool"}) =>
                  \A r \in OptionStarts(markup, f.name) :
                      OptionMarked(markup, r) <=> (OptionValue(markup, r) = Str(v))

\* The value attribute of the input named `name`: up to the closing quote.
ValueAttr(m, name) ==
    LET q == CHOOSE q \in 2..Len(m) : m[q] = "\" value=" /\ m[q - 1] = name
    IN SubSeq(m, q + 2, FirstAt(m, q + 2, {"\""}) - 1)

\* The content of the textarea named `name`: up to the next tag.
TextareaContent(m, name) ==
    LET q == CHOOSE q \in 1..(Len(m) - 1) : m[q] = "<textarea name=\"" /\ m[q + 1] = name
        c == FirstAt(m, q, {">"})
    IN SubSeq(m, c + 1, FirstAt(m, c + 1, {"<", "</textarea>"}) - 1)

ValueSlot(m, f) ==
    IF f.type = "textarea" THEN TextareaContent(m, f.name) ELSE ValueAttr(m, f.name)

Entities == { <<"&", <<"&", "a", "m", "p", ";">> >>,
              <<"<", <<"&", "l", "t", ";">> >>,
              <<">", <<"&", "g", "t", ";">> >>,
              <<"\"", <<"&", "q", "u", "o", "t", ";">> >>,
              <<"'", <<"&", "#", "x", "2", "7", ";">> >> }

\* What a browser reads from escaped text.
RECURSIVE Unescape(_)
Unescape(s) ==
    IF s = <<>> THEN <<>>
    ELSE IF \E e \in Entities : Len(s) >= Len(e[2]) /\ SubSeq(s, 1, Len(e[2])) = e[2]
    THEN LET e == CHOOSE e \in Entities :
                     Len(s) >= Len(e[2]) /\ SubSeq(s, 1, Len(e[2])) = e[2]
         IN <<e[1]>> \o Unescape(SubSeq(s, Len(e[2]) + 1, Len(s)))
    ELSE <<Head(s)>> \o Unescape(Tail(s))

Contains(m, s) == \E i \in 0..(Len(m) - Len(s)) : SubSeq(m, i + 1, i + Len(s)) = s

HasSpecial(v) == v.t = "str" /\ \E i \in 1..Len(v.s) : v.s[i] \in {"&", "<", ">", "\"", "'"}

\* C8: a hidden, textarea or plain input field rendered with a value that
\* has HTML-special characters carries the escaped value only: its slot
\* reads back as the value, holds no raw special character, and the raw
\* value is nowhere in the markup.
C8_ValueIsEscaped ==
    op = "render_html" =>
        \A i \in 1..Len(fields) :
            LET f == fields[i]
                v == Resolved(f)
            IN (f.type \notin {"select", "checkbox"} /\ HasSpecial(v)) =>
                  /\ Unescape(ValueSlot(markup, f)) = v.s
                  /\ \A k \in 1..Len(ValueSlot(markup, f)) :
                        ValueSlot(markup, f)[k] \notin {"<", ">", "\"", "'"}
                  /\ ~Contains(markup, v.s)

\* A hidden field and a textarea, each rendered with markup as its value.
C8_Witness ==
    /\ op = "render_html"
    /\ \E i, j \in 1..Len(fields) :
          /\ fields[i].type = "hidden"
          /\ Resolved(fields[i]) = Markup1
          /\ fields[j].type = "textarea"
          /\ Resolved(fields[j]) = Markup2

\* C9: add_field removes no field, keeps the names unique, and the field it
\* adds is the last one visited.
C9_AddFieldKeepsEveryField ==
    /\ [](\A i, j \in 1..Len(fields) : i # j => fields[i].name # fields[j].name)
    /\ [][\A f \in FieldPool :
             AddField(f) =>
                /\ \A i \in 1..Len(fields) : \E j \in 1..Len(fields') : fields'[j] = fields[i]
                /\ fields'[Len(fields')] = f]_vars

\* C10: min_length and max_length return true on None and on "", and on
\* every other value compare len(str(value)) with n, bounds included.
C10_LengthOfEveryPresentValue ==
    LET v == lenArgs.value
        absent == v = None \/ v = Empty
    IN /\ lenResult.called = "min_length" =>
             lenResult.ret = (absent \/ Len(Str(v)) >= lenArgs.n)
       /\ lenResult.called = "max_length" =>
             lenResult.ret = (absent \/ Len(Str(v)) <= lenArgs.n)

====
